---- MODULE Spec2Model ----
(***************************************************************************)
(* Model of Transcription/app.py: the text clean-up helper                 *)
(* clean_transcription, the retrying file deletion safe_delete_file and    *)
(* the POST /transcribe handler transcribe_endpoint served by concurrent   *)
(* request threads.                                                        *)
(*                                                                         *)
(* A Python str is modelled as a sequence of one-character strings.        *)
(***************************************************************************)
EXTENDS Integers, Sequences, FiniteSets, TLC

(***************************************************************************)
(* Characters and the str methods used by the program                      *)
(***************************************************************************)

LowerLetters ==
    << "a", "b", "c", "d", "e", "f", "g", "h", "i", "j", "k", "l", "m",
       "n", "o", "p", "q", "r", "s", "t", "u", "v", "w", "x", "y", "z" >>

UpperLetters ==
    << "A", "B", "C", "D", "E", "F", "G", "H", "I", "J", "K", "L", "M",
       "N", "O", "P", "Q", "R", "S", "T", "U", "V", "W", "X", "Y", "Z" >>

Range(s) == { s[k] : k \in DOMAIN s }

\* str.isspace / the regex class \s, on the characters of the model
IsSpace(c) == c \in { " ", "\t", "\n" }

IsUpper(c) == c \in Range(UpperLetters)

IsLower(c) == c \in Range(LowerLetters)

\* the regex class \w (letters, digits, underscore)
IsWordChar(c) ==
    \/ IsUpper(c)
    \/ IsLower(c)
    \/ c \in { "0", "1", "2", "3", "4", "5", "6", "7", "8", "9", "_" }

\* str.upper on one character
ToUpper(c) ==
    IF IsLower(c)
    THEN UpperLetters[CHOOSE k \in DOMAIN LowerLetters : LowerLetters[k] = c]
    ELSE c

\* str.lower on one character
ToLower(c) ==
    IF IsUpper(c)
    THEN LowerLetters[CHOOSE k \in DOMAIN UpperLetters : UpperLetters[k] = c]
    ELSE c

\* str.lower
Lower(s) == [ k \in DOMAIN s |-> ToLower(s[k]) ]

\* s[a-1 : b] of Python, 1-based and inclusive here, empty when a > b
Slice(s, a, b) == IF a > b THEN << >> ELSE SubSeq(s, a, b)

\* str.startswith(p, k-1): p occurs in s at position k
OccursAt(s, p, k) ==
    /\ k >= 1
    /\ k + Len(p) - 1 <= Len(s)
    /\ \A j \in 1..Len(p) : s[k + j - 1] = p[j]

\* the same, ignoring case (the re.IGNORECASE flag)
OccursAtIgnoreCase(s, p, k) ==
    /\ k >= 1
    /\ k + Len(p) - 1 <= Len(s)
    /\ \A j \in 1..Len(p) : ToLower(s[k + j - 1]) = ToLower(p[j])

RECURSIVE LStrip(_)
LStrip(s) ==
    IF s # << >> /\ IsSpace(Head(s)) THEN LStrip(Tail(s)) ELSE s

RECURSIVE RStrip(_)
RStrip(s) ==
    IF s # << >> /\ IsSpace(s[Len(s)])
    THEN RStrip(SubSeq(s, 1, Len(s) - 1))
    ELSE s

\* str.strip
Strip(s) == LStrip(RStrip(s))

\* str.capitalize: first character upper-cased, the rest lower-cased
Capitalize(s) ==
    [ k \in DOMAIN s |-> IF k = 1 THEN ToUpper(s[k]) ELSE ToLower(s[k]) ]

\* CollapseSpaces with the pattern r' +' in place of r'\s+': only runs of
\* blanks are collapsed, other whitespace stays
RECURSIVE CollapseBlanksOnly(_)
CollapseBlanksOnly(s) ==
    IF s = << >> THEN << >>
    ELSE IF Head(s) = " " /\ Len(s) >= 2 /\ s[2] = " "
         THEN CollapseBlanksOnly(Tail(s))
         ELSE << Head(s) >> \o CollapseBlanksOnly(Tail(s))

\* re.sub(r'\s+', ' ', text): every maximal run of whitespace becomes one space
RECURSIVE CollapseSpaces(_)
CollapseSpaces(s) ==
    IF s = << >> THEN << >>
    ELSE IF IsSpace(Head(s))
         THEN << " " >> \o CollapseSpaces(LStrip(s))
         ELSE << Head(s) >> \o CollapseSpaces(Tail(s))

\* str.split(sep) for a non-empty separator: the pieces between the
\* left-to-right non-overlapping occurrences of sep
RECURSIVE SplitFrom(_, _, _, _)
SplitFrom(s, sep, start, k) ==
    IF k + Len(sep) - 1 > Len(s)
    THEN << Slice(s, start, Len(s)) >>
    ELSE IF OccursAt(s, sep, k)
         THEN << Slice(s, start, k - 1) >>
                  \o SplitFrom(s, sep, k + Len(sep), k + Len(sep))
         ELSE SplitFrom(s, sep, start, k + 1)

Split(s, sep) == SplitFrom(s, sep, 1, 1)

\* sep.join(parts)
RECURSIVE Join(_, _)
Join(parts, sep) ==
    IF parts = << >> THEN << >>
    ELSE IF Len(parts) = 1 THEN parts[1]
         ELSE parts[1] \o sep \o Join(Tail(parts), sep)

\* [f(x) for x in parts if x.strip()] with f = strip then capitalize
RECURSIVE CapitalizedSentences(_)
CapitalizedSentences(parts) ==
    IF parts = << >> THEN << >>
    ELSE IF Strip(Head(parts)) # << >>
         THEN << Capitalize(Strip(Head(parts))) >>
                  \o CapitalizedSentences(Tail(parts))
         ELSE CapitalizedSentences(Tail(parts))

(***************************************************************************)
(* clean_transcription                                                     *)
(***************************************************************************)

\* EnsureFinalPunctuation that tests for '.' alone
EnsureFinalDot(text) ==
    IF text # << >> /\ text[Len(text)] # "."
    THEN text \o << "." >>
    ELSE text

\* the "Ensure proper punctuation at the end" step
EnsureFinalPunctuation(text) ==
    IF text # << >> /\ ~(text[Len(text)] \in { ".", "!", "?" })
    THEN text \o << "." >>
    ELSE text

\* the common_fixes dict, in insertion order: << word of the pattern
\* \bword\b, replacement >>
common_fixes ==
    <<
       << << "i" >>,
          << "I" >> >>,
       << << "i", "m" >>,
          << "I", "'", "m" >> >>,
       << << "i", "v", "e" >>,
          << "I", "'", "v", "e" >> >>,
       << << "y", "o", "u", "r", "e" >>,
          << "y", "o", "u", "'", "r", "e" >> >>,
       << << "w", "e", "r", "e" >>,
          << "w", "e", "'", "r", "e" >> >>,
       << << "t", "h", "e", "r", "e", "s" >>,
          << "t", "h", "e", "r", "e", "'", "s" >> >>,
       << << "d", "o", "n", "t" >>,
          << "d", "o", "n", "'", "t" >> >>,
       << << "w", "o", "n", "t" >>,
          << "w", "o", "n", "'", "t" >> >>,
       << << "c", "a", "n", "t" >>,
          << "c", "a", "n", "'", "t" >> >>,
       << << "s", "h", "o", "u", "l", "d", "n", "t" >>,
          << "s", "h", "o", "u", "l", "d", "n", "'", "t" >> >>,
       << << "c", "o", "u", "l", "d", "n", "t" >>,
          << "c", "o", "u", "l", "d", "n", "'", "t" >> >>,
       << << "w", "o", "u", "l", "d", "n", "t" >>,
          << "w", "o", "u", "l", "d", "n", "'", "t" >> >>,
       << << "i", "s", "n", "t" >>,
          << "i", "s", "n", "'", "t" >> >>,
       << << "a", "r", "e", "n", "'", "t" >>,
          << "a", "r", "e", "n", "'", "t" >> >>,
       << << "w", "a", "s", "n", "t" >>,
          << "w", "a", "s", "n", "'", "t" >> >>,
       << << "w", "e", "r", "e", "n", "t" >>,
          << "w", "e", "r", "e", "n", "'", "t" >> >>,
       << << "h", "a", "v", "e", "n", "t" >>,
          << "h", "a", "v", "e", "n", "'", "t" >> >>,
       << << "h", "a", "s", "n", "t" >>,
          << "h", "a", "s", "n", "'", "t" >> >>,
       << << "h", "a", "d", "n", "t" >>,
          << "h", "a", "d", "n", "'", "t" >> >>,
       << << "d", "o", "e", "s", "n", "t" >>,
          << "d", "o", "e", "s", "n", "'", "t" >> >>,
       << << "d", "i", "d", "n", "t" >>,
          << "d", "i", "d", "n", "'", "t" >> >>
    >>

\* the regex assertion \b between s[k-1] and s[k]
WordBoundary(s, k) ==
    LET before == k - 1 >= 1 /\ k - 1 <= Len(s) /\ IsWordChar(s[k - 1])
        after  == k >= 1 /\ k <= Len(s) /\ IsWordChar(s[k])
    IN  before # after

\* \bword\b matches at position k under re.IGNORECASE
MatchesWordAt(s, word, k) ==
    /\ OccursAtIgnoreCase(s, word, k)
    /\ WordBoundary(s, k)
    /\ WordBoundary(s, k + Len(word))

\* re.sub(r'\bword\b', replacement, s, flags=re.IGNORECASE) from position k
RECURSIVE ReSubFrom(_, _, _, _)
ReSubFrom(s, word, replacement, k) ==
    IF k > Len(s) THEN << >>
    ELSE IF MatchesWordAt(s, word, k)
         THEN replacement \o ReSubFrom(s, word, replacement, k + Len(word))
         ELSE << s[k] >> \o ReSubFrom(s, word, replacement, k + 1)

ReSubWord(s, word, replacement) == ReSubFrom(s, word, replacement, 1)

\* the loop over common_fixes.items(), from the n-th entry on
RECURSIVE ApplyFixesFrom(_, _)
ApplyFixesFrom(text, n) ==
    IF n > Len(common_fixes) THEN text
    ELSE ApplyFixesFrom(
             ReSubWord(text, common_fixes[n][1], common_fixes[n][2]), n + 1)

ApplyCommonFixes(text) == ApplyFixesFrom(text, 1)

\* the "Capitalize first letter of each sentence" step
CapitalizeSentences(text) ==
    Join(CapitalizedSentences(Split(text, << ".", " " >>)), << ".", " " >>)

clean_transcription(text) ==
    Strip(ApplyCommonFixes(
        EnsureFinalPunctuation(CapitalizeSentences(CollapseSpaces(text)))))

(***************************************************************************)
(* The arguments of clean_transcription: every text made of at most        *)
(* MaxTokens tokens                                                        *)
(***************************************************************************)

MaxTokens == 4

Tokens ==
    { << " " >>, << "\t" >>, << "." >>, << "!" >>, << "?" >>, << "i" >>,
      << "w", "e", "r", "e" >>, << "a", "B" >> }

RECURSIVE Concat(_)
Concat(parts) ==
    IF parts = << >> THEN << >> ELSE Head(parts) \o Concat(Tail(parts))

InputTexts ==
    UNION { { Concat(f) : f \in [1..n -> Tokens] } : n \in 0..MaxTokens }

(***************************************************************************)
(* State                                                                   *)
(***************************************************************************)

VARIABLES
    files,           \* the paths that exist in the temporary directory
    pc,              \* per request: the handler's position
    request,         \* per request: request.files['audio'], if any
    temp_file_path,  \* per request: the local temp_file_path
    audio_data,      \* per request: the samples librosa.load returned
    response,        \* per request: the answer of the handler
    deletion,        \* per request: the frame of its safe_delete_file call
    calls,           \* per request: what the handler has invoked so far
    sd,              \* a stand-alone call of safe_delete_file
    clean_pc,        \* a stand-alone call of clean_transcription: position,
    clean_in,        \*   argument
    clean_out        \*   and return value

vars ==
    << files, pc, request, temp_file_path, audio_data, response, deletion,
       calls, sd, clean_pc, clean_in, clean_out >>

endpoint_vars ==
    << pc, request, temp_file_path, audio_data, response, deletion, calls >>

clean_vars == << clean_pc, clean_in, clean_out >>

\* Python's None, where a text or a path is expected
None == << >>

(***************************************************************************)
(* safe_delete_file(file_path, max_retries=5, delay=0.1)                   *)
(***************************************************************************)

\* the default of the max_retries parameter
DefaultMaxRetries == 5

\* largest max_retries argument of the stand-alone calls
MaxRetriesArg == 6

\* the delay arguments of the stand-alone calls, in tenths of a second
Delays == { 0, 1 }

\* a frame that was never entered
NoDeletion ==
    [ file_path |-> None, max_retries |-> 0, delay |-> 0, i |-> 0,
      status |-> "not_called", result |-> FALSE, unlinks |-> 0,
      permission_errors |-> 0, sleeps |-> 0, last_unlink |-> "none" ]

\* what os.unlink(file_path) can do: remove the file, or raise
UnlinkOutcomes(fs, file_path) ==
    IF file_path \in fs
    THEN { "removed", "PermissionError", "OSError" }
    ELSE { "FileNotFoundError" }

\* the next iteration of "for i in range(max_retries)", or the
\* "return False" after the loop
NextIteration(d) ==
    IF d.i + 1 < d.max_retries
    THEN [ d EXCEPT !.i = d.i + 1, !.status = "exists" ]
    ELSE [ d EXCEPT !.i = d.i + 1, !.status = "returned", !.result = FALSE ]

\* entering the function: the loop starts, or is empty
SafeDeleteCall(file_path, max_retries, delay) ==
    [ NoDeletion EXCEPT
        !.file_path = file_path, !.max_retries = max_retries,
        !.delay = delay,
        !.status = IF max_retries > 0 THEN "exists" ELSE "returned" ]

\* "if os.path.exists(file_path):" with the answer `present`
SafeDeleteExists(d, present) ==
    IF present THEN [ d EXCEPT !.status = "unlink" ] ELSE NextIteration(d)

\* SafeDeleteUnlink with "if i < max_retries:" in the except clause: the
\* function sleeps after its last attempt too, before the loop ends
SafeDeleteUnlinkOffByOne(d, outcome) ==
    LET tried == [ d EXCEPT !.unlinks = d.unlinks + 1,
                            !.last_unlink = outcome ]
    IN  CASE outcome = "removed" ->
                [ tried EXCEPT !.status = "returned", !.result = TRUE ]
          [] outcome = "PermissionError" ->
                NextIteration(
                    [ tried EXCEPT
                        !.permission_errors = d.permission_errors + 1,
                        !.sleeps = d.sleeps + 1 ])
          [] OTHER ->
                [ tried EXCEPT !.status = "raised" ]

\* "os.unlink(file_path); return True" and the except clause
SafeDeleteUnlink(d, outcome) ==
    LET tried == [ d EXCEPT !.unlinks = d.unlinks + 1,
                            !.last_unlink = outcome ]
    IN  CASE outcome = "removed" ->
                [ tried EXCEPT !.status = "returned", !.result = TRUE ]
          [] outcome = "PermissionError" ->
                IF d.i < d.max_retries - 1
                THEN [ tried EXCEPT
                         !.permission_errors = d.permission_errors + 1,
                         !.sleeps = d.sleeps + 1,
                         !.i = d.i + 1,
                         !.status = "exists" ]
                ELSE [ tried EXCEPT
                         !.permission_errors = d.permission_errors + 1,
                         !.status = "returned", !.result = FALSE ]
          [] OTHER ->
                \* any other exception leaves the function
                [ tried EXCEPT !.status = "raised" ]

\* the file system after os.unlink
AfterUnlink(fs, file_path, outcome) ==
    IF outcome = "removed" THEN fs \ { file_path } ELSE fs

(***************************************************************************)
(* transcribe_audio(audio_data, sample_rate=16000)                         *)
(***************************************************************************)

\* the string returned by the except clause
ErrorTranscription ==
    << "S", "o", "r", "r", "y", ",", " ", "t", "h", "e", "r", "e", " ", "w", "a", "s" >>
    \o << " ", "a", "n", " ", "e", "r", "r", "o", "r", " ", "p", "r", "o", "c", "e", "s" >>
    \o << "s", "i", "n", "g", " ", "t", "h", "e", " ", "a", "u", "d", "i", "o", "." >>

\* the texts processor.batch_decode can return in the model
ModelOutputs ==
    { << >>,
      << "W", "E", "R", "E", " ", "I" >> }

\* what the call model(input_values) does: return logits that decode to a
\* text, or raise
ModelResults ==
    { [ raises |-> TRUE, text |-> None ] }
        \cup { [ raises |-> FALSE, text |-> t ] : t \in ModelOutputs }

\* the numbers of samples librosa.load can return in the model: an audio
\* file without frames, or one with frames
AudioLengths == { 0, 1 }

\* transcribe_audio that returns the decoded text as it is, without the call
\* of clean_transcription
transcribe_audio_uncleaned(samples, model_result) ==
    IF samples = 0 \/ model_result.raises
    THEN [ raised |-> FALSE, value |-> ErrorTranscription, caught |-> TRUE,
           model_calls |-> IF samples = 0 THEN 0 ELSE 1,
           model_output |-> << >>, clean_calls |-> 0 ]
    ELSE [ raised |-> FALSE, value |-> model_result.text, caught |-> FALSE,
           model_calls |-> 1, model_output |-> << model_result.text >>,
           clean_calls |-> 1 ]

\* The function body.  audio_data is given by its number of samples; with no
\* sample np.max raises ValueError before the model is reached.  The result
\* records the returned value, that nothing was raised to the caller, and
\* what the body did.
transcribe_audio(samples, model_result) ==
    IF samples = 0
    THEN [ raised |-> FALSE, value |-> ErrorTranscription, caught |-> TRUE,
           model_calls |-> 0, model_output |-> << >>, clean_calls |-> 0 ]
    ELSE IF model_result.raises
         THEN [ raised |-> FALSE, value |-> ErrorTranscription,
                caught |-> TRUE, model_calls |-> 1, model_output |-> << >>,
                clean_calls |-> 0 ]
         ELSE [ raised |-> FALSE,
                value |-> clean_transcription(model_result.text),
                caught |-> FALSE, model_calls |-> 1,
                model_output |-> << model_result.text >>,
                clean_calls |-> 1 ]

(***************************************************************************)
(* transcribe_endpoint: requests, responses, validation                    *)
(***************************************************************************)

\* number of concurrent POST /transcribe requests
NumRequests == 2

\* number of names tempfile.mktemp draws from
NumNames == 2

Requests == 1..NumRequests

Names == 1..NumNames

\* the filenames of the uploads in the model
FileNames ==
    { << >>,
      << "B", ".", "M", "P", "3" >>,
      << "a", ".", "t", "x", "t" >>,
      << ".", "o", "g", "g" >> }

\* request.files: without an 'audio' part, or with one of the filenames
RequestInputs ==
    { [ has_audio |-> FALSE, filename |-> None ] }
        \cup { [ has_audio |-> TRUE, filename |-> f ] : f \in FileNames }

NoRequest == [ has_audio |-> FALSE, filename |-> None ]

\* allowed_extensions with '.txt' let in
allowed_extensions_and_txt ==
    { << ".", "w", "a", "v" >>, << ".", "m", "p", "3" >>,
      << ".", "f", "l", "a", "c" >>, << ".", "m", "4", "a" >>,
      << ".", "o", "p", "u", "s" >>, << ".", "o", "g", "g" >>,
      << ".", "t", "x", "t" >> }

allowed_extensions ==
    { << ".", "w", "a", "v" >>, << ".", "m", "p", "3" >>,
      << ".", "f", "l", "a", "c" >>, << ".", "m", "4", "a" >>,
      << ".", "o", "p", "u", "s" >>, << ".", "o", "g", "g" >> }

\* str.rfind(c) + 1: the last position of c in p, 0 when there is none
RFind(p, c) ==
    IF \E k \in DOMAIN p : p[k] = c
    THEN CHOOSE k \in DOMAIN p :
             p[k] = c /\ \A j \in DOMAIN p : p[j] = c => j <= k
    ELSE 0

\* os.path.splitext(p)[1]: from the last dot of the last path component,
\* unless only dots precede it there
SplitExt(p) ==
    LET sepIndex == RFind(p, "/")
        dotIndex == RFind(p, ".")
    IN  IF /\ dotIndex > sepIndex
           /\ \E k \in (sepIndex + 1)..(dotIndex - 1) : p[k] # "."
        THEN Slice(p, dotIndex, Len(p))
        ELSE << >>

\* file_ext of the handler
FileExt(filename) == SplitExt(Lower(filename))

\* the three tests of the handler, in order: "ok" or the reason of the 400
Validation(req) ==
    IF ~req.has_audio THEN "no_audio"
    ELSE IF req.filename = << >> THEN "no_file_selected"
    ELSE IF ~(FileExt(req.filename) \in allowed_extensions) THEN "unsupported"
    ELSE "ok"

NoResponse ==
    [ code |-> 0, json |-> FALSE, keys |-> {}, status |-> "",
      transcription |-> None, audio_duration |-> 0, filename |-> None ]

\* jsonify({'error': ...}), code
JsonError(code) ==
    [ NoResponse EXCEPT !.code = code, !.json = TRUE, !.keys = { "error" } ]

\* jsonify({'status': 'success', ...}), answered with 200
JsonSuccess(transcription, samples, filename) ==
    [ code |-> 200, json |-> TRUE,
      keys |-> { "status", "transcription", "audio_duration", "filename" },
      status |-> "success", transcription |-> transcription,
      audio_duration |-> samples, filename |-> filename ]

\* the answer of the framework when the handler raises: 500, no JSON body
UnhandledError == [ NoResponse EXCEPT !.code = 500 ]

NoCalls ==
    [ mktemp |-> 0, save |-> 0, load |-> 0, decoded |-> FALSE,
      transcribe |-> 0, caught |-> FALSE, model |-> 0,
      model_output |-> << >>, clean |-> 0, safe_delete |-> 0 ]

\* what the handler answers once the finally block is over: the value of
\* its return statement, unless the block raised
HandlerExit(d, returned) ==
    IF d.status = "raised" THEN UnhandledError ELSE returned

(***************************************************************************)
(* transcribe_endpoint: the steps of one request thread                    *)
(***************************************************************************)

\* the framework hands a POST /transcribe to the handler:
\* "temp_file_path = None" and the try block is entered
Receive(r) ==
    /\ pc[r] = "idle"
    /\ \E req \in RequestInputs : request' = [request EXCEPT ![r] = req]
    /\ pc' = [pc EXCEPT ![r] = "validate"]
    /\ UNCHANGED << files, temp_file_path, audio_data, response, deletion,
                    calls, sd, clean_vars >>

\* the three tests; a failed one returns 400, which enters the finally block
Validate(r) ==
    /\ pc[r] = "validate"
    /\ IF Validation(request[r]) = "ok"
       THEN /\ pc' = [pc EXCEPT ![r] = "mktemp"]
            /\ UNCHANGED response
       ELSE /\ pc' = [pc EXCEPT ![r] = "finally"]
            /\ response' = [response EXCEPT ![r] = JsonError(400)]
    /\ UNCHANGED << files, request, temp_file_path, audio_data, deletion,
                    calls, sd, clean_vars >>

\* the paths tempfile.mktemp(suffix) can return: a drawn name that does not
\* exist at the time of the call
MktempResults(fs, suffix) ==
    { << n, suffix >> : n \in { m \in Names : ~(<< m, suffix >> \in fs) } }

\* "temp_file_path = tempfile.mktemp(suffix=file_ext)"; with no usable name
\* mktemp raises FileExistsError, which the except clause answers with 500
Mktemp(r) ==
    /\ pc[r] = "mktemp"
    /\ calls' = [calls EXCEPT ![r].mktemp = 1]
    /\ LET results == MktempResults(files, FileExt(request[r].filename))
       IN  IF results # {}
           THEN /\ \E p \in results :
                      temp_file_path' = [temp_file_path EXCEPT ![r] = p]
                /\ pc' = [pc EXCEPT ![r] = "save"]
                /\ UNCHANGED response
           ELSE /\ pc' = [pc EXCEPT ![r] = "finally"]
                /\ response' = [response EXCEPT ![r] = JsonError(500)]
                /\ UNCHANGED temp_file_path
    /\ UNCHANGED << files, request, audio_data, deletion, sd, clean_vars >>

\* "audio_file.save(temp_file_path)": the file is written, or the write
\* raises with or without the file left behind
Save(r) ==
    /\ pc[r] = "save"
    /\ calls' = [calls EXCEPT ![r].save = 1]
    /\ \/ /\ files' = files \cup { temp_file_path[r] }
          /\ pc' = [pc EXCEPT ![r] = "load"]
          /\ UNCHANGED response
       \/ /\ \E left_behind \in BOOLEAN :
                files' = IF left_behind
                         THEN files \cup { temp_file_path[r] }
                         ELSE files
          /\ pc' = [pc EXCEPT ![r] = "finally"]
          /\ response' = [response EXCEPT ![r] = JsonError(500)]
    /\ UNCHANGED << request, temp_file_path, audio_data, deletion, sd,
                    clean_vars >>

\* what librosa.load(temp_file_path, sr=16000) can do: return samples when
\* the file is there and decodes, or raise
LoadResults(fs, path) ==
    { [ raises |-> TRUE, samples |-> 0 ] }
        \cup IF path \in fs
             THEN { [ raises |-> FALSE, samples |-> n ] : n \in AudioLengths }
             ELSE {}

\* the inner try block: the samples, or 400
Load(r) ==
    /\ pc[r] = "load"
    /\ \E res \in LoadResults(files, temp_file_path[r]) :
          IF res.raises
          THEN /\ pc' = [pc EXCEPT ![r] = "finally"]
               /\ response' = [response EXCEPT ![r] = JsonError(400)]
               /\ calls' = [calls EXCEPT ![r].load = 1]
               /\ UNCHANGED audio_data
          ELSE /\ pc' = [pc EXCEPT ![r] = "transcribe"]
               /\ audio_data' = [audio_data EXCEPT ![r] = res.samples]
               /\ calls' = [calls EXCEPT ![r].load = 1, ![r].decoded = TRUE]
               /\ UNCHANGED response
    /\ UNCHANGED << files, request, temp_file_path, deletion, sd,
                    clean_vars >>

\* "transcription = transcribe_audio(audio_data, sample_rate)" and the
\* return of the success object; an exception out of transcribe_audio
\* would reach the except clause
Transcribe(r) ==
    /\ pc[r] = "transcribe"
    /\ \E model_result \in ModelResults :
          LET t == transcribe_audio(audio_data[r], model_result)
          IN  /\ calls' = [calls EXCEPT
                             ![r].transcribe = 1,
                             ![r].caught = t.caught,
                             ![r].model = t.model_calls,
                             ![r].model_output = t.model_output,
                             ![r].clean = t.clean_calls]
              /\ response' =
                     [response EXCEPT
                        ![r] = IF t.raised
                               THEN JsonError(500)
                               ELSE JsonSuccess(t.value, audio_data[r],
                                                request[r].filename)]
    /\ pc' = [pc EXCEPT ![r] = "finally"]
    /\ UNCHANGED << files, request, temp_file_path, audio_data, deletion, sd,
                    clean_vars >>

\* "if temp_file_path and os.path.exists(temp_file_path)": the condition of
\* the finally block
FinallyCondition(fs, path) == path # None /\ path \in fs

\* the finally block: safe_delete_file(temp_file_path) is entered, or the
\* block is over and the handler hands the value it returned to the framework
Finally(r) ==
    /\ pc[r] = "finally"
    /\ IF FinallyCondition(files, temp_file_path[r])
       THEN /\ deletion' =
                   [deletion EXCEPT
                      ![r] = SafeDeleteCall(temp_file_path[r],
                                            DefaultMaxRetries, 1)]
            /\ calls' = [calls EXCEPT ![r].safe_delete = 1]
            /\ pc' = [pc EXCEPT ![r] = "safe_delete"]
       ELSE /\ pc' = [pc EXCEPT ![r] = "respond"]
            /\ UNCHANGED << deletion, calls >>
    /\ UNCHANGED << files, request, temp_file_path, audio_data, response, sd,
                    clean_vars >>

\* the handler after a step d of safe_delete_file: still in it, or left
AfterDeleteStep(r, d) ==
    /\ deletion' = [deletion EXCEPT ![r] = d]
    /\ IF d.status \in { "returned", "raised" }
       THEN /\ pc' = [pc EXCEPT ![r] = "respond"]
            /\ response' = [response EXCEPT
                              ![r] = HandlerExit(d, response[r])]
       ELSE UNCHANGED << pc, response >>

\* safe_delete_file: "if os.path.exists(file_path):"
DeleteExists(r) ==
    /\ pc[r] = "safe_delete"
    /\ deletion[r].status = "exists"
    /\ AfterDeleteStep(r, SafeDeleteExists(deletion[r],
                                           deletion[r].file_path \in files))
    /\ UNCHANGED << files, request, temp_file_path, audio_data, calls, sd,
                    clean_vars >>

\* safe_delete_file: "os.unlink(file_path)" and what follows it
DeleteUnlink(r) ==
    /\ pc[r] = "safe_delete"
    /\ deletion[r].status = "unlink"
    /\ \E outcome \in UnlinkOutcomes(files, deletion[r].file_path) :
          /\ files' = AfterUnlink(files, deletion[r].file_path, outcome)
          /\ AfterDeleteStep(r, SafeDeleteUnlink(deletion[r], outcome))
    /\ UNCHANGED << request, temp_file_path, audio_data, calls, sd,
                    clean_vars >>

\* the handler is over: the framework sends the answer to the client
Respond(r) ==
    /\ pc[r] = "respond"
    /\ pc' = [pc EXCEPT ![r] = "done"]
    /\ UNCHANGED << files, request, temp_file_path, audio_data, response,
                    deletion, calls, sd, clean_vars >>

Init ==
    /\ files = {}
    /\ pc = [r \in Requests |-> "idle"]
    /\ request = [r \in Requests |-> NoRequest]
    /\ temp_file_path = [r \in Requests |-> None]
    /\ audio_data = [r \in Requests |-> 0]
    /\ response = [r \in Requests |-> NoResponse]
    /\ deletion = [r \in Requests |-> NoDeletion]
    /\ calls = [r \in Requests |-> NoCalls]
    /\ sd = NoDeletion
    /\ clean_pc = "unused"
    /\ clean_in = None
    /\ clean_out = None

Next ==
    \E r \in Requests :
        \/ Receive(r)
        \/ Validate(r)
        \/ Mktemp(r)
        \/ Save(r)
        \/ Load(r)
        \/ Transcribe(r)
        \/ Finally(r)
        \/ DeleteExists(r)
        \/ DeleteUnlink(r)
        \/ Respond(r)

Spec == Init /\ [][Next]_vars

(***************************************************************************)
(* One request thread, with the other threads of the server seen only by   *)
(* what they do to the temporary directory                                 *)
(***************************************************************************)

\* the request followed in SpecRequest
Tracked == CHOOSE r \in Requests : \A q \in Requests : r <= q

\* the paths request threads can use: a name of mktemp and the extension of
\* an accepted upload
TempPaths ==
    { << n, FileExt(f) >> :
        n \in Names,
        f \in { g \in FileNames : FileExt(g) \in allowed_extensions } }

\* another thread's "audio_file.save(temp_file_path)"
OtherSave ==
    /\ \E p \in TempPaths : ~(p \in files) /\ files' = files \cup { p }
    /\ UNCHANGED << endpoint_vars, sd, clean_vars >>

\* another thread's successful "os.unlink(file_path)"
OtherUnlink ==
    /\ \E p \in files : files' = files \ { p }
    /\ UNCHANGED << endpoint_vars, sd, clean_vars >>

NextRequest ==
    \/ Receive(Tracked)
    \/ Validate(Tracked)
    \/ Mktemp(Tracked)
    \/ Save(Tracked)
    \/ Load(Tracked)
    \/ Transcribe(Tracked)
    \/ Finally(Tracked)
    \/ DeleteExists(Tracked)
    \/ DeleteUnlink(Tracked)
    \/ Respond(Tracked)
    \/ OtherSave
    \/ OtherUnlink

SpecRequest == Init /\ [][NextRequest]_vars

(***************************************************************************)
(* Stand-alone calls safe_delete_file(file_path, max_retries, delay)       *)
(***************************************************************************)

\* the file_path argument of the stand-alone calls
SdPath == << 1, << ".", "w", "a", "v" >> >>

InitDelete ==
    /\ files \in SUBSET { SdPath }
    /\ \E m \in 0..MaxRetriesArg, dl \in Delays :
          sd = SafeDeleteCall(SdPath, m, dl)
    /\ pc = [r \in Requests |-> "idle"]
    /\ request = [r \in Requests |-> NoRequest]
    /\ temp_file_path = [r \in Requests |-> None]
    /\ audio_data = [r \in Requests |-> 0]
    /\ response = [r \in Requests |-> NoResponse]
    /\ deletion = [r \in Requests |-> NoDeletion]
    /\ calls = [r \in Requests |-> NoCalls]
    /\ clean_pc = "unused"
    /\ clean_in = None
    /\ clean_out = None

\* "if os.path.exists(file_path):"
SdExists ==
    /\ sd.status = "exists"
    /\ sd' = SafeDeleteExists(sd, sd.file_path \in files)
    /\ UNCHANGED << files, endpoint_vars, clean_vars >>

\* "os.unlink(file_path)" and what follows it
SdUnlink ==
    /\ sd.status = "unlink"
    /\ \E outcome \in UnlinkOutcomes(files, sd.file_path) :
          /\ files' = AfterUnlink(files, sd.file_path, outcome)
          /\ sd' = SafeDeleteUnlink(sd, outcome)
    /\ UNCHANGED << endpoint_vars, clean_vars >>

SdStep == SdExists \/ SdUnlink

\* another thread or process creates or removes the file meanwhile
SdOtherSave ==
    /\ ~(sd.file_path \in files)
    /\ files' = files \cup { sd.file_path }
    /\ UNCHANGED << endpoint_vars, sd, clean_vars >>

SdOtherUnlink ==
    /\ sd.file_path \in files
    /\ files' = files \ { sd.file_path }
    /\ UNCHANGED << endpoint_vars, sd, clean_vars >>

NextDelete == SdExists \/ SdUnlink \/ SdOtherSave \/ SdOtherUnlink

\* the calling thread keeps running: every statement of the function is
\* executed once it is reached
SpecDelete == InitDelete /\ [][NextDelete]_vars /\ WF_vars(SdStep)

(***************************************************************************)
(* Stand-alone calls clean_transcription(text)                             *)
(***************************************************************************)

InitClean ==
    /\ clean_in \in InputTexts
    /\ clean_pc = "called"
    /\ clean_out = None
    /\ files = {}
    /\ sd = NoDeletion
    /\ pc = [r \in Requests |-> "idle"]
    /\ request = [r \in Requests |-> NoRequest]
    /\ temp_file_path = [r \in Requests |-> None]
    /\ audio_data = [r \in Requests |-> 0]
    /\ response = [r \in Requests |-> NoResponse]
    /\ deletion = [r \in Requests |-> NoDeletion]
    /\ calls = [r \in Requests |-> NoCalls]

CleanReturn ==
    /\ clean_pc = "called"
    /\ clean_out' = clean_transcription(clean_in)
    /\ clean_pc' = "returned"
    /\ UNCHANGED << clean_in, files, endpoint_vars, sd >>

NextClean == CleanReturn

SpecClean == InitClean /\ [][NextClean]_vars

(***************************************************************************)
(* Properties of clean_transcription (SpecClean)                           *)
(***************************************************************************)

IsLetter(c) == IsUpper(c) \/ IsLower(c)

SentenceEnd == { ".", "!", "?" }

\* the number of occurrences of character c in s
Count(s, c) == Cardinality({ k \in DOMAIN s : s[k] = c })

\* the positions where a sentence starts: the start of the text and every
\* position that follows ". "
SentenceStarts(s) ==
    { k \in DOMAIN s : k = 1 \/ (k >= 3 /\ s[k - 2] = "." /\ s[k - 1] = " ") }

\* s is made of whitespace and of dots that are each followed by whitespace
RECURSIVE OnlySeparators(_)
OnlySeparators(s) ==
    LET t == LStrip(s)
    IN  \/ t = << >>
        \/ /\ Len(t) >= 2
           /\ t[1] = "."
           /\ IsSpace(t[2])
           /\ OnlySeparators(Tail(t))

OnlyWhitespace(s) == \A k \in DOMAIN s : IsSpace(s[k])

\* C7: in the returned string every sentence (at the start of the text and
\* after each ". ") that begins with a letter begins with an upper-case
\* letter, also after the contraction fixes.
C7_SentencesCapitalized ==
    clean_pc = "returned" =>
        \A k \in SentenceStarts(clean_out) :
            IsLetter(clean_out[k]) => IsUpper(clean_out[k])

\* C8 as stated: the returned string is empty exactly when the input is
\* empty or whitespace-only, and ends with '.', '!' or '?' otherwise.
C8_EmptyOnlyForBlankInput ==
    clean_pc = "returned" =>
        /\ clean_out = << >> <=> OnlyWhitespace(clean_in)
        /\ clean_out # << >> => clean_out[Len(clean_out)] \in SentenceEnd

\* C8 amended: the returned string is empty or ends with '.', '!' or '?'; it
\* is empty exactly when the input is made of whitespace and of dots each
\* followed by whitespace (the empty and the whitespace-only input
\* included); and a '.' is added only at the end of a text that does not
\* end with one of the three characters: no other dot is added, and none at
\* all when the input, trailing whitespace aside, ends with one of them.
C8_EndsWithPunctuation ==
    clean_pc = "returned" =>
        /\ clean_out = << >> \/ clean_out[Len(clean_out)] \in SentenceEnd
        /\ clean_out = << >> <=> OnlySeparators(clean_in)
        /\ OnlyWhitespace(clean_in) => clean_out = << >>
        /\ Count(clean_out, ".") <= Count(clean_in, ".") + 1
        /\ LET t == RStrip(clean_in)
           IN  (t # << >> /\ t[Len(t)] \in SentenceEnd)
                   => Count(clean_out, ".") <= Count(clean_in, ".")

\* a text without final punctuation came back with the dot added
C8_Witness ==
    /\ clean_pc = "returned"
    /\ clean_in # << >>
    /\ ~(clean_in[Len(clean_in)] \in SentenceEnd)
    /\ clean_out # << >>
    /\ clean_out[Len(clean_out)] = "."
    /\ Count(clean_out, ".") = Count(clean_in, ".") + 1

\* C9: the returned string has no leading or trailing whitespace and never
\* two whitespace characters in a row.
C9_NoExtraSpaces ==
    clean_pc = "returned" =>
        /\ clean_out # << >> =>
              /\ ~IsSpace(clean_out[1])
              /\ ~IsSpace(clean_out[Len(clean_out)])
        /\ \A k \in 1..(Len(clean_out) - 1) :
              ~(IsSpace(clean_out[k]) /\ IsSpace(clean_out[k + 1]))

\* a text with a run of different whitespace characters between two words
\* came back, the words one blank apart
C9_Witness ==
    /\ clean_pc = "returned"
    /\ \E k \in 2..(Len(clean_in) - 2) :
          /\ IsLetter(clean_in[k - 1])
          /\ clean_in[k] = " "
          /\ clean_in[k + 1] = "\t"
          /\ IsLetter(clean_in[k + 2])
    /\ \E k \in DOMAIN clean_out : clean_out[k] = " "

(***************************************************************************)
(* Properties of safe_delete_file (SpecDelete)                             *)
(***************************************************************************)

SdFinished == sd.status \in { "returned", "raised" }

SdRunning == sd.status \in { "exists", "unlink" }

\* what holds of a call of safe_delete_file at every moment
SdBounded ==
    \* at most max_retries deletion attempts, one per iteration
    /\ sd.unlinks <= sd.max_retries
    /\ sd.unlinks <= sd.i + 1
    /\ SdRunning => sd.i < sd.max_retries
    /\ sd.status = "exists" => sd.unlinks <= sd.i
    \* True as soon as, and only when, an os.unlink succeeded
    /\ sd.last_unlink = "removed" <=> (sd.status = "returned" /\ sd.result)
    \* a PermissionError is followed by a retry only while attempts remain,
    \* and the last one by "return False"
    /\ (sd.last_unlink = "PermissionError" /\ SdRunning)
           => sd.i < sd.max_retries
    /\ sd.permission_errors = sd.max_retries
           => (sd.max_retries = 0 \/ sd.last_unlink = "PermissionError")
                 /\ sd.status = "returned" /\ ~sd.result
    \* one sleep after each PermissionError except that of the last
    \* iteration: at most max_retries - 1 sleeps
    /\ sd.sleeps <= sd.permission_errors
    /\ sd.permission_errors <= sd.sleeps + 1
    /\ sd.max_retries > 0 => sd.sleeps <= sd.max_retries - 1
    /\ sd.sleeps <= sd.i
    /\ sd.max_retries = 0 => sd.sleeps = 0 /\ sd.unlinks = 0

\* C5: safe_delete_file makes at most max_retries deletion attempts, returns
\* True as soon as one os.unlink succeeds, retries after a PermissionError
\* only while attempts remain, sleeps only between attempts (at most
\* max_retries - 1 times, never after the last attempt), returns False once
\* the max_retries-th attempt has raised PermissionError, and always
\* terminates.
C5_SafeDeleteTerminates == []SdBounded /\ <>SdFinished

\* a call with the default max_retries gave up after five PermissionErrors
\* and four sleeps
C5_Witness ==
    /\ sd.max_retries = DefaultMaxRetries
    /\ sd.status = "returned"
    /\ ~sd.result
    /\ sd.unlinks = DefaultMaxRetries
    /\ sd.permission_errors = DefaultMaxRetries
    /\ sd.sleeps = DefaultMaxRetries - 1

(***************************************************************************)
(* Properties of transcribe_endpoint (Spec, SpecRequest)                   *)
(***************************************************************************)

\* the success object, answered with 200
IsSuccessResponse(resp) ==
    /\ resp.json
    /\ resp.code = 200
    /\ resp.keys = { "status", "transcription", "audio_duration", "filename" }
    /\ resp.status = "success"

\* the error object, answered with 400 or 500
IsErrorResponse(resp) ==
    /\ resp.json
    /\ resp.keys = { "error" }
    /\ resp.code \in { 400, 500 }

\* C1: every POST /transcribe that completes is answered with the success
\* object and 200 or with the error object and 400 or 500, on every path
\* through the handler, those where the cleanup fails included.
C1_JsonResponse ==
    \A r \in Requests :
        pc[r] = "done" =>
            IsSuccessResponse(response[r]) \/ IsErrorResponse(response[r])

\* C2: at the moment the handler of a request that chose a temp file path
\* returns, the file no longer exists, or safe_delete_file was called on it
\* and returned False after its last retry raised PermissionError.
C2_TempFileCleanedUp ==
    [][\A r \in Requests :
          (pc[r] = "respond" /\ pc'[r] = "done" /\ temp_file_path[r] # None)
              => \/ ~(temp_file_path[r] \in files)
                 \/ /\ deletion[r].file_path = temp_file_path[r]
                    /\ deletion[r].status = "returned"
                    /\ ~deletion[r].result
                    /\ deletion[r].last_unlink = "PermissionError"]_vars

\* the extensions C3 lists
C3_Extensions ==
    { << ".", "w", "a", "v" >>, << ".", "m", "p", "3" >>,
      << ".", "f", "l", "a", "c" >>, << ".", "m", "4", "a" >>,
      << ".", "o", "p", "u", "s" >>, << ".", "o", "g", "g" >> }

\* the request fails the validation: no 'audio' part, an empty filename, or
\* an extension that is not listed
FailsValidation(req) ==
    \/ ~req.has_audio
    \/ req.filename = << >>
    \/ ~(SplitExt(Lower(req.filename)) \in C3_Extensions)

\* what holds of a request that fails the validation, once received
RejectedUntouched(r) ==
    /\ pc[r] \in { "validate", "finally", "respond", "done" }
    /\ pc[r] # "validate" => response[r] = JsonError(400)
    /\ temp_file_path[r] = None
    /\ calls[r] = NoCalls
    /\ deletion[r] = NoDeletion

\* C3: a request that fails the validation is answered with 400 and an
\* 'error' message; no temp file path is chosen, no file is written, the
\* audio loader, the model and safe_delete_file are not called, and no step
\* of the request changes the temporary directory.
C3_InvalidRejected ==
    /\ [](\A r \in Requests :
            (pc[r] # "idle" /\ FailsValidation(request[r]))
                => RejectedUntouched(r))
    /\ [][\A r \in Requests :
            (FailsValidation(request'[r]) /\ pc'[r] # pc[r])
                => files' = files]_vars

\* a '.txt' upload was answered with 400 while the temporary directory held
\* a file of another request
C3_Witness ==
    /\ pc[Tracked] = "done"
    /\ request[Tracked].has_audio
    /\ request[Tracked].filename = << "a", ".", "t", "x", "t" >>
    /\ response[Tracked] = JsonError(400)
    /\ files # {}

InFlight(r) == temp_file_path[r] # None /\ pc[r] # "done"

\* C6: no two requests in flight ever hold the same temp file path.
C6_UniqueTempFiles ==
    \A r1, r2 \in Requests :
        (r1 # r2 /\ InFlight(r1) /\ InFlight(r2))
            => temp_file_path[r1] # temp_file_path[r2]

\* C10: transcribe_audio never raises, it returns the fixed error string
\* when an exception occurs in it; the endpoint then answers the request
\* with 200 and 'status' = 'success', the error string as 'transcription'.
C10_ErrorStringIsSuccess ==
    \A r \in Requests :
        /\ calls[r].caught =>
              /\ pc[r] \in { "finally", "safe_delete", "respond", "done" }
              /\ IsSuccessResponse(response[r])
              /\ response[r].transcription = ErrorTranscription
        /\ (calls[r].transcribe = 1 /\ pc[r] = "finally") =>
              IsSuccessResponse(response[r])

====
